---- MODULE Spec2Model ----
(***************************************************************************)
(* Model of repspark_worker.py: the resilient element locator              *)
(* wait_and_click_xpath_anywhere, the run() pipeline (export retry loop,   *)
(* guaranteed browser release) and the spreadsheet sync.                   *)
(***************************************************************************)
EXTENDS Integers, Sequences, FiniteSets, TLC

\* ---------------------------------------------------------------- bounds
\* Longest candidate list handed to the locator in the locator-only specification.
MaxCands == 3
\* Largest number of frames page.frames may enumerate.
MaxFrames == 2

\* Locator strings the candidate lists are drawn from (duplicates allowed).
XPathIds == {"xa", "xb"}

\* All sequences over S of length 0..n.
RECURSIVE SeqsUpTo(_, _)
SeqsUpTo(S, n) ==
  IF n = 0 THEN {<<>>}
  ELSE LET shorter == SeqsUpTo(S, n - 1)
       IN  shorter \cup {Append(s, x) : s \in {t \in shorter : Len(t) = n - 1}, x \in S}

VARIABLES
  \* ---- wait_and_click_xpath_anywhere (one call at a time)
  caller,     \* who is inside the locator: "none", "direct", "products", "export"
  xpaths,     \* the candidate list of the current call
  lpc,        \* position inside the call: "idle","main","frames","text","shot","ret"
  li,         \* index of the next candidate (for xp in xpaths)
  lf,         \* index of the current frame (for fr in page.frames)
  nfr,        \* Len(page.frames) as enumerated when the frame loop starts
  lres,       \* value returned: "none" (still running), "true", "false"
  trace,      \* history: every attempt of the call, in order
  clicks,     \* history: clicks the browser completed during the call
  shots,      \* history: screenshot files written during the call
  \* ---- run()
  pc,         \* position of run()
  env,        \* the required environment variables that are set
  saFile,     \* sa.json has been written
  driver,     \* sync_playwright driver: "none", "started", "stopped"
  browser,    \* the local `browser`: "none" (None), "open", "closed"
  closeCalls, \* history: calls of browser.close()
  stopCalls,  \* history: calls of p.stop()
  exc,        \* the exception travelling up, "none" when there is none
  logged,     \* the top-level handler has logged the traceback
  needs_login, \* needs_login: "unknown", "yes", "no"
  fs,         \* login strategy being tried for the current field (1..3)
  emailBy,    \* history: strategy that filled the email field, 0 if none
  passBy,     \* history: strategy that filled the password field, 0 if none
  submitted,  \* history: how the form was submitted: "no", "button", "enter"
  probe,      \* history: how the Email-field check ended, "none" before it
  url,        \* history: page.url as the detection block saw it, <<>> before
  fills,      \* history: every fill(sel, val) call, in order
  ok_products, \* the local `ok_products`: "none" (unassigned), "true", "false"
  productsCalls, \* history: locator calls made for the Products menu
  attempt,    \* the export loop variable, 0 before the loop
  success,    \* the local `success`
  listening,  \* a page.expect_download listener is open
  pauses,     \* history: completed page.wait_for_timeout(1500) calls
  pausedMs,   \* history: milliseconds spent in those calls
  e,          \* the handler's `e`: the exception caught, "none" outside it
  xlsx_path,  \* the local `xlsx_path`, "" while unassigned
  files,      \* downloads/: file name -> [dl: capturing attempt, content: table]
  ws,         \* the remote worksheet GSHEET_TAB
  wsOps,      \* history: worksheet API calls that took effect, in order
  values,     \* the local `values` (rows to push), <<>> while unassigned
  syncs,      \* history: syncs completed on this worksheet
  after1      \* history: the worksheet as the first completed sync left it

lvars == <<caller, xpaths, lpc, li, lf, nfr, lres, trace, clicks, shots>>
loginvars == <<needs_login, fs, emailBy, passBy, submitted, probe, url, fills>>
exportvars == <<attempt, success, listening, pauses, pausedMs, e, xlsx_path, files>>
prodvars == <<ok_products, productsCalls>>
sheetvars == <<ws, wsOps, values, syncs, after1>>
resvars == <<driver, browser, closeCalls, stopCalls>>
rvars == <<pc, env, saFile, exc, logged, resvars, loginvars, prodvars, exportvars,
          sheetvars>>
vars == <<lvars, rvars>>

\* ------------------------------------------------------------ the locator
\* What one candidate attempt (wait_for_selector, scroll_into_view_if_needed,
\* click) can do: complete, or raise in any of the three calls.
AttemptOutcomes == {"ok", "wait_failed", "scroll_failed", "click_failed"}

Att(ctx, fr, cand, ok) == [ctx |-> ctx, fr |-> fr, cand |-> cand, ok |-> ok]

\* State at the entry of wait_and_click_xpath_anywhere(page, xs, ...).
LocatorEntry(who, xs) ==
  /\ caller' = who
  /\ xpaths' = xs
  /\ lpc' = "main"
  /\ li' = 1
  /\ lf' = 0
  /\ nfr' = 0
  /\ lres' = "none"
  /\ trace' = <<>>
  /\ clicks' = 0
  /\ shots' = 0

\* Faulty variant of MainStep: the loop goes on after a completed click.
MainStepSkip(i, ok) == [pc |-> "main", i |-> i + 1, res |-> IF ok THEN "true" ELSE "none"]
\* Position after a candidate attempt in the main document: return True after a
\* completed click, otherwise go on with the next candidate.
MainStep(i, ok) ==
  IF ok THEN [pc |-> "ret", i |-> i, res |-> "true"]
        ELSE [pc |-> "main", i |-> i + 1, res |-> "none"]

\* for xp in xpaths: try ... return True / except Exception: pass   (main document)
MainCandidate ==
  /\ lpc = "main"
  /\ li <= Len(xpaths)
  /\ \E out \in AttemptOutcomes :
       LET ok == (out = "ok")
           nx == MainStep(li, ok)
       IN  /\ trace' = Append(trace, Att("page", 0, li, ok))
           /\ clicks' = IF ok THEN clicks + 1 ELSE clicks
           /\ lpc' = nx.pc
           /\ li' = nx.i
           /\ lres' = nx.res
  /\ UNCHANGED <<caller, xpaths, lf, nfr, shots>>
  /\ UNCHANGED rvars

\* Faulty variant of FirstFramePos: the frame loop is skipped.
FirstFramePosNoFrames(n, c) == [f |-> n + 1, i |-> 1]
\* First (frame, candidate) position of the frame loops over n frames and a list
\* of c candidates; past the last frame when either loop has nothing to run.
FirstFramePos(n, c) ==
  IF n = 0 \/ c = 0 THEN [f |-> n + 1, i |-> 1] ELSE [f |-> 1, i |-> 1]

\* for fr in page.frames: the frame list is enumerated once, when the loop starts.
EnterFrames ==
  /\ lpc = "main"
  /\ li > Len(xpaths)
  /\ \E n \in 0..MaxFrames :
       LET p == FirstFramePos(n, Len(xpaths))
       IN  /\ nfr' = n
           /\ lf' = p.f
           /\ li' = p.i
  /\ lpc' = "frames"
  /\ UNCHANGED <<caller, xpaths, lres, trace, clicks, shots>>
  /\ UNCHANGED rvars

\* Faulty variant of NextFramePos: the two loops swapped (frames innermost).
NextFramePosFramesInner(f, i, n, c) ==
  IF f < n THEN [f |-> f + 1, i |-> i]
  ELSE IF i < c THEN [f |-> 1, i |-> i + 1]
  ELSE [f |-> n + 1, i |-> 1]
\* Next (frame, candidate) position after a failed attempt: candidates are the
\* inner loop, frames the outer one.
NextFramePos(f, i, n, c) ==
  IF i < c THEN [f |-> f, i |-> i + 1] ELSE [f |-> f + 1, i |-> 1]

\* for fr in page.frames: for xp in xpaths: try ... return True / except: pass
FrameCandidate ==
  /\ lpc = "frames"
  /\ lf <= nfr
  /\ \E out \in AttemptOutcomes :
       LET ok == (out = "ok")
           p  == NextFramePos(lf, li, nfr, Len(xpaths))
       IN  /\ trace' = Append(trace, Att("frame", lf, li, ok))
           /\ clicks' = IF ok THEN clicks + 1 ELSE clicks
           /\ IF ok
                THEN /\ lpc' = "ret"
                     /\ lres' = "true"
                     /\ UNCHANGED <<lf, li>>
                ELSE /\ lpc' = "frames"
                     /\ lres' = "none"
                     /\ lf' = p.f
                     /\ li' = p.i
  /\ UNCHANGED <<caller, xpaths, nfr, shots>>
  /\ UNCHANGED rvars

\* Faulty variant of TextStep: return False at once, without the screenshot.
TextStepNoShot(ok) == [pc |-> "ret", res |-> IF ok THEN "true" ELSE "false"]
\* Position and result after the text click: return True when it completed,
\* otherwise fall through to the debug screenshot.
TextStep(ok) ==
  IF ok THEN [pc |-> "ret", res |-> "true"] ELSE [pc |-> "shot", res |-> "none"]

\* page.get_by_text("Export ATS to Excel", exact=False).first.click(timeout=3000)
TextFallback ==
  /\ lpc = "frames"
  /\ lf > nfr
  /\ \E ok \in BOOLEAN :
       LET nx == TextStep(ok)
       IN  /\ trace' = Append(trace, Att("text", 0, 0, ok))
           /\ clicks' = IF ok THEN clicks + 1 ELSE clicks
           /\ lpc' = nx.pc
           /\ lres' = nx.res
  /\ UNCHANGED <<caller, xpaths, li, lf, nfr, shots>>
  /\ UNCHANGED rvars

\* Files a page.screenshot call leaves behind: one when it completes, none when
\* it raises (the exception is swallowed).
ShotFiles(ok) == IF ok THEN 1 ELSE 0

\* Faulty variant of ShotResult: a failing screenshot is not swallowed, so no
\* value is returned.
ShotResultByFile(ok) == IF ok THEN "false" ELSE "none"
\* Value returned after the screenshot block.
ShotResult(ok) == "false"

\* try: page.screenshot(...) except Exception: pass; return False
DebugScreenshot ==
  /\ lpc = "shot"
  /\ \E ok \in BOOLEAN :
       /\ trace' = Append(trace, Att("shot", 0, 0, ok))
       /\ shots' = shots + ShotFiles(ok)
       /\ lres' = ShotResult(ok)
  /\ lpc' = "ret"
  /\ UNCHANGED <<caller, xpaths, li, lf, nfr, clicks>>
  /\ UNCHANGED rvars

\* ------------------------------------------------- the downloaded table
\* A cell of the Excel file: an integer, a text, or an empty cell.
IntCell(n) == [k |-> "int", n |-> n, s |-> ""]
StrCell(t) == [k |-> "str", n |-> 0, s |-> t]
NoCell == [k |-> "na", n |-> 0, s |-> ""]

Table(hdr, rows) == [hdr |-> hdr, rows |-> rows]
NumCols(t) == Len(t.hdr)

\* Column type pd.read_excel settles on for data column c: text anywhere keeps
\* the Python objects; integers with an empty cell become floats (NaN needs a
\* float column); integers alone stay integers.
ColumnDtype(t, c) ==
  LET col == {t.rows[r][c] : r \in 1..Len(t.rows)}
  IN  IF \E x \in col : x.k = "str" THEN "object"
      ELSE IF \E x \in col : x.k = "na" THEN "float64"
      ELSE "int64"

\* df.fillna("").astype(str) on one cell of a column of type dt.
CellText(dt, x) ==
  IF x.k = "na" THEN ""
  ELSE IF x.k = "str" THEN x.s
  ELSE IF dt = "float64" THEN ToString(x.n) \o ".0"
  ELSE ToString(x.n)

\* df.columns.tolist(): a header text as it is, an empty header cell named by
\* pandas after its 0-based position.
HeaderText(x, c) == IF x.k = "na" THEN "Unnamed: " \o ToString(c - 1) ELSE x.s

\* values = [df.columns.tolist()] + df.fillna("").astype(str).values.tolist()
PushedValues(t) ==
  LET nc == NumCols(t)
      dt == [c \in 1..nc |-> ColumnDtype(t, c)]
  IN  <<[c \in 1..nc |-> HeaderText(t.hdr[c], c)]>>
        \o [r \in 1..Len(t.rows) |-> [c \in 1..nc |-> CellText(dt[c], t.rows[r][c])]]

\* ----------------------------------------------------- the remote worksheet
\* Floors of the resize (and the size of a worksheet created by add_worksheet).
MinRows == 100
MinCols == 26

Max(a, b) == IF a >= b THEN a ELSE b

NoCells == [q \in {} |-> ""]
Sheet(r, c, cells) == [exists |-> TRUE, rows |-> r, cols |-> c, cells |-> cells]
NoSheet == [exists |-> FALSE, rows |-> 0, cols |-> 0, cells |-> NoCells]

\* Faulty variant of AddWorksheet: a one-cell worksheet.
AddWorksheetSmall == Sheet(1, 1, NoCells)
\* sh.add_worksheet(title=gsheet_tab, rows="100", cols="26")
AddWorksheet == Sheet(MinRows, MinCols, NoCells)

\* Faulty variant of WsClear: the values stay.
WsClearKeeps(w) == w
\* ws.clear(): every value goes, the grid keeps its size.
WsClear(w) == [w EXCEPT !.cells = NoCells]

\* Faulty variant of ResizeDims: the size of the data, without the floor.
ResizeDimsNoFloor(vals) == [rows |-> Len(vals), cols |-> Len(vals[1])]
\* Arguments of ws.resize(rows=max(len(values), 100), cols=max(len(values[0]), 26)).
ResizeDims(vals) ==
  [rows |-> Max(Len(vals), MinRows), cols |-> Max(Len(vals[1]), MinCols)]

\* ws.resize(rows, cols): the grid gets that size, cells outside it are dropped.
WsResize(w, d) ==
  [w EXCEPT !.rows = d.rows, !.cols = d.cols,
            !.cells = [q \in {x \in DOMAIN w.cells : x[1] <= d.rows /\ x[2] <= d.cols}
                         |-> w.cells[q]]]

\* Cells a rectangular block of rows written from A1 covers.
Covered(vals) == (1..Len(vals)) \X (1..Len(vals[1]))

\* The block fits the grid (the API rejects a write outside it).
UpdateFits(w, vals) == Len(vals) <= w.rows /\ Len(vals[1]) <= w.cols

\* ws.update("A1", values, value_input_option="RAW"): the covered cells take the
\* given texts (an empty text leaves the cell empty), the others keep theirs.
WsUpdate(w, vals) ==
  LET cov == Covered(vals)
      dom == (DOMAIN w.cells \ cov) \cup {q \in cov : vals[q[1]][q[2]] # ""}
  IN  [w EXCEPT !.cells = [q \in dom |-> IF q \in cov THEN vals[q[1]][q[2]]
                                                     ELSE w.cells[q]]]

\* ------------------------------------------------------------------ run()
\* Faulty variant of Required: GCP_SA_JSON read with a default, like GSHEET_TAB.
RequiredWithoutSa == {"REPSPARK_EMAIL", "REPSPARK_PASSWORD", "GSHEET_ID"}
\* os.environ[...] lookups of run(): a missing one raises KeyError.
Required == {"REPSPARK_EMAIL", "REPSPARK_PASSWORD", "GSHEET_ID", "GCP_SA_JSON"}

\* Candidate lists run() hands to the locator.
ProductsXPaths == <<"products_xpath">>
ExportXPaths == <<"export_id_xp", "export_fb_xp">>

\* The locator's frame is gone once its caller has read the result.
LocatorIdle ==
  /\ caller' = "none"
  /\ xpaths' = <<>>
  /\ lpc' = "idle"
  /\ li' = 1
  /\ lf' = 0
  /\ nfr' = 0
  /\ lres' = "none"
  /\ trace' = <<>>
  /\ clicks' = 0
  /\ shots' = 0

\* An exception raised inside the inner try block: control goes to its finally.
Fail(label) ==
  /\ exc' = label
  /\ pc' = "finally_close"

\* download_dir.mkdir, the os.environ lookups, sa_path.write_text(sa_json)
Bootstrap ==
  /\ pc = "boot"
  /\ \E out \in {"ok", "mkdir_failed", "write_failed"} :
       IF out = "mkdir_failed"
         THEN /\ exc' = "OSError" /\ pc' = "except" /\ UNCHANGED saFile
       ELSE IF ~(Required \subseteq env)
         THEN /\ exc' = "KeyError" /\ pc' = "except" /\ UNCHANGED saFile
       ELSE IF out = "write_failed"
         THEN /\ exc' = "OSError" /\ pc' = "except" /\ UNCHANGED saFile
       ELSE /\ saFile' = TRUE /\ pc' = "driver" /\ UNCHANGED exc
  /\ UNCHANGED <<env, logged, resvars, loginvars, prodvars, exportvars, sheetvars>>
  /\ UNCHANGED lvars

\* p = sync_playwright().start(); browser = None
StartDriver ==
  /\ pc = "driver"
  /\ \E ok \in BOOLEAN :
       IF ok THEN /\ driver' = "started" /\ pc' = "launch" /\ UNCHANGED exc
             ELSE /\ exc' = "driver_error" /\ pc' = "except" /\ UNCHANGED driver
  /\ UNCHANGED <<env, saFile, logged, browser, closeCalls, stopCalls>>
  /\ UNCHANGED <<loginvars, prodvars, exportvars, sheetvars>>
  /\ UNCHANGED lvars

\* browser = p.chromium.launch(...)
LaunchBrowser ==
  /\ pc = "launch"
  /\ \E ok \in BOOLEAN :
       IF ok THEN /\ browser' = "open" /\ pc' = "open" /\ UNCHANGED exc
             ELSE /\ Fail("launch_error") /\ UNCHANGED browser
  /\ UNCHANGED <<env, saFile, logged, driver, closeCalls, stopCalls>>
  /\ UNCHANGED <<loginvars, prodvars, exportvars, sheetvars>>
  /\ UNCHANGED lvars

\* new_context, new_page, page.goto, page.wait_for_load_state("networkidle")
OpenPage ==
  /\ pc = "open"
  /\ \E ok \in BOOLEAN :
       IF ok THEN /\ pc' = "detect" /\ UNCHANGED exc
             ELSE Fail("navigation_error")
  /\ UNCHANGED <<env, saFile, logged, resvars, loginvars, prodvars, exportvars, sheetvars>>
  /\ UNCHANGED lvars

\* str.lower() on the characters of the URLs considered.
LowerChar(c) ==
  CASE c = "L" -> "l" [] c = "O" -> "o" [] c = "G" -> "g"
    [] c = "I" -> "i" [] c = "N" -> "n" [] OTHER -> c

Lower(s) == [k \in 1..Len(s) |-> LowerChar(s[k])]

\* The `in` operator on strings: sub occurs in s as a contiguous run.
Contains(sub, s) ==
  \E k \in 0..(Len(s) - Len(sub)) : SubSeq(s, k + 1, k + Len(sub)) = sub

LoginWord == <<"l", "o", "g", "i", "n">>

\* Values of page.url when the detection block runs.
Urls ==
  { <<"/", "l", "o", "g", "i", "n">>,
    <<"/", "L", "o", "g", "i", "n">>,
    <<"/", "h", "o", "m", "e">> }

\* Faulty variant of NeedsLogin: the URL is consulted even when the check
\* completed.
NeedsLoginAnyUrl(pr, u) ==
  pr = "present" \/ Contains(LoginWord, Lower(u))

\* needs_login after the detection block: the Email field count when the check
\* completes, the test on the lower-cased URL when the check raises.
NeedsLogin(pr, u) ==
  pr = "present" \/ (pr = "error" /\ Contains(LoginWord, Lower(u)))

\* try: needs_login = page.get_by_placeholder("Email").count() > 0
\* except Exception: if "login" in page.url.lower(): needs_login = True
DetectLogin ==
  /\ pc = "detect"
  /\ \E pr \in {"present", "absent", "error"}, u \in Urls :
       /\ probe' = pr
       /\ url' = u
       /\ IF NeedsLogin(pr, u)
            THEN /\ needs_login' = "yes" /\ pc' = "email"
            ELSE /\ needs_login' = "no" /\ pc' = "products"
  /\ UNCHANGED <<fs, emailBy, passBy, submitted, fills>>
  /\ UNCHANGED <<env, saFile, exc, logged, resvars, prodvars, exportvars, sheetvars>>
  /\ UNCHANGED lvars

\* Selector strategies per login field (name, type, placeholder).
NumStrategies == 3

\* The selectors of one field, in the order of the `or` chain.
Strategies == <<"name", "type", "placeholder">>

\* Faulty variant of FillStep: fill catches every exception.
FillStepCatchAll(s, out) ==
  IF out = "filled" THEN "done"
  ELSE IF s < NumStrategies THEN "next"
  ELSE "assert"

\* What follows the s-th fill of a field: fill returns True ("done"), returns
\* False on PWTimeout so that `or` evaluates the next operand ("next") or the
\* assert fails after the last one ("assert"), and lets any other exception
\* through ("raise").
FillStep(s, out) ==
  IF out = "filled" THEN "done"
  ELSE IF out = "error" THEN "raise"
  ELSE IF s < NumStrategies THEN "next"
  ELSE "assert"

\* assert (fill(name, email) or fill(type, email) or fill(placeholder, email))
FillEmail ==
  /\ pc = "email"
  /\ \E out \in {"filled", "timeout", "error"} :
       /\ fills' = Append(fills, [field |-> "email", sel |-> Strategies[fs],
                                  out |-> out])
       /\ CASE FillStep(fs, out) = "done" ->
                 /\ emailBy' = fs /\ fs' = 1 /\ pc' = "password" /\ UNCHANGED exc
            [] FillStep(fs, out) = "raise" ->
                 /\ Fail("fill_error") /\ UNCHANGED <<emailBy, fs>>
            [] FillStep(fs, out) = "next" ->
                 /\ fs' = fs + 1 /\ UNCHANGED <<emailBy, pc, exc>>
            [] OTHER ->
                 /\ Fail("AssertionError") /\ UNCHANGED <<emailBy, fs>>
  /\ UNCHANGED <<needs_login, passBy, submitted, probe, url>>
  /\ UNCHANGED <<env, saFile, logged, resvars, prodvars, exportvars, sheetvars>>
  /\ UNCHANGED lvars

\* assert (fill(name, password) or fill(type, password) or fill(placeholder, ..))
FillPassword ==
  /\ pc = "password"
  /\ \E out \in {"filled", "timeout", "error"} :
       /\ fills' = Append(fills, [field |-> "password", sel |-> Strategies[fs],
                                  out |-> out])
       /\ CASE FillStep(fs, out) = "done" ->
                 /\ passBy' = fs /\ fs' = 1 /\ pc' = "submit" /\ UNCHANGED exc
            [] FillStep(fs, out) = "raise" ->
                 /\ Fail("fill_error") /\ UNCHANGED <<passBy, fs>>
            [] FillStep(fs, out) = "next" ->
                 /\ fs' = fs + 1 /\ UNCHANGED <<passBy, pc, exc>>
            [] OTHER ->
                 /\ Fail("AssertionError") /\ UNCHANGED <<passBy, fs>>
  /\ UNCHANGED <<needs_login, emailBy, submitted, probe, url>>
  /\ UNCHANGED <<env, saFile, logged, resvars, prodvars, exportvars, sheetvars>>
  /\ UNCHANGED lvars

\* click "Sign in", else press Enter; then wait_for_load_state("networkidle")
SubmitLogin ==
  /\ pc = "submit"
  /\ \E clickOk \in BOOLEAN, enterOk \in BOOLEAN, loadOk \in BOOLEAN :
       IF ~clickOk /\ ~enterOk
         THEN /\ Fail("keyboard_error") /\ UNCHANGED submitted
         ELSE /\ submitted' = IF clickOk THEN "button" ELSE "enter"
              /\ IF loadOk THEN /\ pc' = "products" /\ UNCHANGED exc
                           ELSE Fail("timeout")
  /\ UNCHANGED <<needs_login, fs, emailBy, passBy, probe, url, fills>>
  /\ UNCHANGED <<env, saFile, logged, resvars, prodvars, exportvars, sheetvars>>
  /\ UNCHANGED lvars

\* ok_products = wait_and_click_xpath_anywhere(page, [products_xpath], ...)
CallProducts ==
  /\ pc = "products"
  /\ LocatorEntry("products", ProductsXPaths)
  /\ pc' = "in_products"
  /\ productsCalls' = productsCalls + 1
  /\ UNCHANGED ok_products
  /\ UNCHANGED <<env, saFile, exc, logged, resvars, loginvars, exportvars, sheetvars>>

\* Faulty variant of ProductsReturn: the assert on ok_products is missing.
ProductsReturnNoAssert ==
  /\ pc = "in_products"
  /\ lpc = "ret"
  /\ ok_products' = lres
  /\ \E loadOk \in BOOLEAN :
       IF loadOk THEN /\ pc' = "export" /\ UNCHANGED exc
                 ELSE Fail("timeout")
  /\ LocatorIdle
  /\ UNCHANGED productsCalls
  /\ UNCHANGED <<env, saFile, logged, resvars, loginvars, exportvars, sheetvars>>

\* assert ok_products; page.wait_for_load_state; page.wait_for_timeout(800)
ProductsReturn ==
  /\ pc = "in_products"
  /\ lpc = "ret"
  /\ ok_products' = lres
  /\ IF lres = "true"
       THEN \E loadOk \in BOOLEAN :
              IF loadOk THEN /\ pc' = "export" /\ UNCHANGED exc
                        ELSE Fail("timeout")
       ELSE Fail("AssertionError")
  /\ LocatorIdle
  /\ UNCHANGED productsCalls
  /\ UNCHANGED <<env, saFile, logged, resvars, loginvars, exportvars, sheetvars>>

\* --------------------------------------------------------- the export loop
\* for attempt in range(1, 4)
MaxAttempts == 3

\* download.suggested_filename ("" when the browser suggests none).
SuggestedNames == {"", "ats.xlsx"}

\* filename = download.suggested_filename or f"Availability_{int(time.time())}.xlsx"
FileName(sug) == IF sug = "" THEN "Availability_ts.xlsx" ELSE sug

NoFiles == [x \in {} |-> 0]
Put(f, n, v) == [x \in DOMAIN f \cup {n} |-> IF x = n THEN v ELSE f[x]]

\* Tables a download may hold: the SKU/Qty table with an empty Qty cell, and a
\* one-column text table.
ExampleTable ==
  Table(<<StrCell("SKU"), StrCell("Qty")>>,
        << <<StrCell("A1"), IntCell(5)>>, <<StrCell("A2"), NoCell>> >>)
TextTable == Table(<<StrCell("SKU")>>, << <<StrCell("B7")>> >>)
RunTables == {ExampleTable, TextTable}

\* Faulty variant of LoopHasNext: range(1, 5).
LoopHasNextOneMore(a) == a < MaxAttempts + 1
\* The loop head runs another iteration while the range has a next value.
LoopHasNext(a) == a < MaxAttempts

\* page.wait_for_timeout(1500): the pause of the handler, in milliseconds.
PauseMs == 1500

\* Loop head with an iteration left: attempt is bound, the download listener is
\* opened (with page.expect_download(...)) and the locator is called inside it.
BeginAttempt ==
  /\ pc = "export"
  /\ LoopHasNext(attempt)
  /\ attempt' = attempt + 1
  /\ \E ok \in BOOLEAN :
       IF ok THEN /\ listening' = TRUE
                  /\ LocatorEntry("export", ExportXPaths)
                  /\ pc' = "in_export"
                  /\ UNCHANGED e
             ELSE /\ pc' = "pause"
                  /\ e' = "listen_error"
                  /\ UNCHANGED listening
                  /\ UNCHANGED lvars
  /\ UNCHANGED <<success, pauses, pausedMs, xlsx_path, files>>
  /\ UNCHANGED <<env, saFile, exc, logged, resvars, loginvars, prodvars, sheetvars>>

\* Faulty variant of ExportReturn: the RuntimeError is raised outside the try
\* block and leaves the loop.
ExportReturnUncaught ==
  /\ pc = "in_export"
  /\ lpc = "ret"
  /\ IF lres = "true"
       THEN /\ pc' = "download" /\ UNCHANGED <<listening, exc>>
       ELSE /\ Fail("RuntimeError") /\ listening' = FALSE
  /\ LocatorIdle
  /\ UNCHANGED <<attempt, success, pauses, pausedMs, e, xlsx_path, files>>
  /\ UNCHANGED <<env, saFile, logged, resvars, loginvars, prodvars, sheetvars>>

\* if not wait_and_click_xpath_anywhere(...): raise RuntimeError(...)
\* The raise is inside the with block, inside the try: the listener is
\* cancelled and the handler binds e.
ExportReturn ==
  /\ pc = "in_export"
  /\ lpc = "ret"
  /\ IF lres = "true"
       THEN /\ pc' = "download" /\ UNCHANGED <<listening, e>>
       ELSE /\ pc' = "pause" /\ listening' = FALSE /\ e' = "RuntimeError"
  /\ LocatorIdle
  /\ UNCHANGED <<attempt, success, pauses, pausedMs, xlsx_path, files>>
  /\ UNCHANGED <<env, saFile, exc, logged, resvars, loginvars, prodvars, sheetvars>>

\* Faulty variant of AfterSaved: no break, the loop goes on.
AfterSavedNoBreak == "export"
\* Faulty variant of AfterSaved: the handler's pause follows the success.
AfterSavedPauses == "pause"
\* Where control goes after success = True: break leaves the loop.
AfterSaved == "assert"

\* Leaving the with block waits for the download; then dlinfo.value, the file
\* name, download.save_as(...), success = True, break.
AwaitDownload ==
  /\ pc = "download"
  /\ listening' = FALSE
  /\ \E out \in {"timeout", "saved", "save_failed"},
        sug \in SuggestedNames, t \in RunTables :
       IF out = "timeout"
         THEN /\ pc' = "pause"
              /\ e' = "TimeoutError"
              /\ UNCHANGED <<xlsx_path, files, success>>
       ELSE IF out = "save_failed"
         THEN /\ xlsx_path' = FileName(sug)
              /\ pc' = "pause"
              /\ e' = "save_error"
              /\ UNCHANGED <<files, success>>
       ELSE /\ xlsx_path' = FileName(sug)
            /\ files' = Put(files, FileName(sug), [dl |-> attempt, content |-> t])
            /\ success' = TRUE
            /\ pc' = AfterSaved
            /\ UNCHANGED e
  /\ UNCHANGED <<attempt, pauses, pausedMs>>
  /\ UNCHANGED <<env, saFile, exc, logged, resvars, loginvars, prodvars, sheetvars>>
  /\ UNCHANGED lvars

\* except Exception as e: _log(...); page.wait_for_timeout(1500)
\* e is unbound when the handler is left, by its end or by an exception.
Pause ==
  /\ pc = "pause"
  /\ e' = "none"
  /\ \E ok \in BOOLEAN :
       IF ok THEN /\ pauses' = pauses + 1
                  /\ pausedMs' = pausedMs + PauseMs
                  /\ pc' = "export"
                  /\ UNCHANGED exc
             ELSE /\ Fail("pause_error") /\ UNCHANGED <<pauses, pausedMs>>
  /\ UNCHANGED <<attempt, success, listening, xlsx_path, files>>
  /\ UNCHANGED <<env, saFile, logged, resvars, loginvars, prodvars, sheetvars>>
  /\ UNCHANGED lvars

\* The range is exhausted: the loop ends.
LoopExit ==
  /\ pc = "export"
  /\ ~LoopHasNext(attempt)
  /\ pc' = "assert"
  /\ UNCHANGED <<env, saFile, exc, logged, resvars, loginvars, prodvars, exportvars, sheetvars>>
  /\ UNCHANGED lvars

\* Faulty variant of AssertPasses: the assertion is not checked.
AssertPassesAlways(ok) == TRUE
\* assert success, "Falha ao acionar o download ..."
AssertPasses(ok) == ok

\* The statement after the loop: go on to the spreadsheet, or raise.

AssertSuccess ==
  /\ pc = "assert"
  /\ IF AssertPasses(success)
       THEN /\ pc' = "sheets" /\ UNCHANGED exc
       ELSE Fail("AssertionError")
  /\ UNCHANGED <<env, saFile, logged, resvars, loginvars, prodvars, exportvars, sheetvars>>
  /\ UNCHANGED lvars

\* ------------------------------------------------------ the spreadsheet sync
\* Credentials.from_service_account_file, gspread.authorize, gc.open_by_key
OpenSpreadsheet ==
  /\ pc = "sheets"
  /\ \E ok \in BOOLEAN :
       IF ok THEN /\ pc' = "worksheet" /\ UNCHANGED exc
             ELSE Fail("APIError")
  /\ UNCHANGED <<env, saFile, logged, resvars, loginvars, prodvars, exportvars, sheetvars>>
  /\ UNCHANGED lvars

\* try: ws = sh.worksheet(tab) except WorksheetNotFound: ws = sh.add_worksheet(...)
GetWorksheet ==
  /\ pc = "worksheet"
  /\ \E ok \in BOOLEAN :
       IF ~ok THEN /\ Fail("APIError") /\ UNCHANGED <<ws, wsOps>>
       ELSE IF ws.exists THEN /\ pc' = "read" /\ UNCHANGED <<exc, ws, wsOps>>
       ELSE /\ ws' = AddWorksheet
            /\ wsOps' = Append(wsOps, "add")
            /\ pc' = "read"
            /\ UNCHANGED exc
  /\ UNCHANGED <<values, syncs, after1>>
  /\ UNCHANGED <<env, saFile, logged, resvars, loginvars, prodvars, exportvars>>
  /\ UNCHANGED lvars

\* df = pd.read_excel(xlsx_path, engine="openpyxl"); values = [...] + [...]
ReadExcel ==
  /\ pc = "read"
  /\ \E ok \in BOOLEAN :
       IF ok /\ xlsx_path \in DOMAIN files
         THEN /\ values' = PushedValues(files[xlsx_path].content)
              /\ pc' = "clear"
              /\ UNCHANGED exc
         ELSE /\ Fail("read_error") /\ UNCHANGED values
  /\ UNCHANGED <<ws, wsOps, syncs, after1>>
  /\ UNCHANGED <<env, saFile, logged, resvars, loginvars, prodvars, exportvars>>
  /\ UNCHANGED lvars

\* ws.clear()
Clear ==
  /\ pc = "clear"
  /\ \E ok \in BOOLEAN :
       IF ok THEN /\ ws' = WsClear(ws)
                  /\ wsOps' = Append(wsOps, "clear")
                  /\ pc' = "resize"
                  /\ UNCHANGED exc
             ELSE /\ Fail("APIError") /\ UNCHANGED <<ws, wsOps>>
  /\ UNCHANGED <<values, syncs, after1>>
  /\ UNCHANGED <<env, saFile, logged, resvars, loginvars, prodvars, exportvars>>
  /\ UNCHANGED lvars

\* ws.resize(rows=max(len(values), 100), cols=max(len(values[0]), 26))
Resize ==
  /\ pc = "resize"
  /\ \E ok \in BOOLEAN :
       IF ok THEN /\ ws' = WsResize(ws, ResizeDims(values))
                  /\ wsOps' = Append(wsOps, "resize")
                  /\ pc' = "update"
                  /\ UNCHANGED exc
             ELSE /\ Fail("APIError") /\ UNCHANGED <<ws, wsOps>>
  /\ UNCHANGED <<values, syncs, after1>>
  /\ UNCHANGED <<env, saFile, logged, resvars, loginvars, prodvars, exportvars>>
  /\ UNCHANGED lvars

\* ws.update("A1", values, value_input_option="RAW"); the try block ends.
Update ==
  /\ pc = "update"
  /\ \E ok \in BOOLEAN :
       IF ok /\ UpdateFits(ws, values)
         THEN /\ ws' = WsUpdate(ws, values)
              /\ wsOps' = Append(wsOps, "update")
              /\ syncs' = syncs + 1
              /\ after1' = IF syncs = 0 THEN WsUpdate(ws, values) ELSE after1
              /\ pc' = "finally_close"
              /\ UNCHANGED exc
         ELSE /\ Fail("APIError") /\ UNCHANGED <<ws, wsOps, syncs, after1>>
  /\ UNCHANGED values
  /\ UNCHANGED <<env, saFile, logged, resvars, loginvars, prodvars, exportvars>>
  /\ UNCHANGED lvars

\* ------------------------------------------------------- release and handler
\* Faulty variant of AfterClose: p.stop() follows browser.close() without a
\* finally of its own, so a failing close skips it.
AfterCloseSkipsStop(closed) == IF closed THEN "finally_stop" ELSE "except"
\* Where control goes after the inner try of the finally block: p.stop() sits in
\* its own finally, so it runs whether or not browser.close() raised.
AfterClose(closed) == "finally_stop"

\* finally: try: if browser is not None: browser.close()
CloseBrowser ==
  /\ pc = "finally_close"
  /\ IF browser # "none"
       THEN /\ closeCalls' = closeCalls + 1
            /\ \E ok \in BOOLEAN :
                 /\ browser' = IF ok THEN "closed" ELSE browser
                 /\ exc' = IF ok THEN exc ELSE "close_error"
                 /\ pc' = AfterClose(ok)
       ELSE /\ pc' = AfterClose(TRUE)
            /\ UNCHANGED <<browser, closeCalls, exc>>
  /\ UNCHANGED <<driver, stopCalls>>
  /\ UNCHANGED <<env, saFile, logged, loginvars, prodvars, exportvars, sheetvars>>
  /\ UNCHANGED lvars

\* finally: p.stop(); then the try statement ends or the exception goes on up.
StopDriver ==
  /\ pc = "finally_stop"
  /\ stopCalls' = stopCalls + 1
  /\ \E ok \in BOOLEAN :
       /\ driver' = IF ok THEN "stopped" ELSE driver
       /\ exc' = IF ok THEN exc ELSE "stop_error"
       /\ pc' = IF ok /\ exc = "none" THEN "done" ELSE "except"
  /\ UNCHANGED <<browser, closeCalls>>
  /\ UNCHANGED <<env, saFile, logged, loginvars, prodvars, exportvars, sheetvars>>
  /\ UNCHANGED lvars

\* Faulty variant of TopLevelExcept: the exception goes on up without being logged.
TopLevelExceptSilent ==
  /\ pc = "except"
  /\ pc' = "failed"
  /\ UNCHANGED <<env, saFile, exc, logged, resvars, loginvars, prodvars, exportvars, sheetvars>>
  /\ UNCHANGED lvars

\* except Exception: _log("[ERRO]\n" + traceback.format_exc()); raise
TopLevelExcept ==
  /\ pc = "except"
  /\ logged' = TRUE
  /\ pc' = "failed"
  /\ UNCHANGED <<env, saFile, exc, resvars, loginvars, prodvars, exportvars, sheetvars>>
  /\ UNCHANGED lvars

\* ------------------------------------------------------------ specifications
\* Worksheets the run may find: none, a fresh one, one left by an earlier sync of
\* a larger table (cells inside and outside the area a new table covers).
LargeSheet ==
  Sheet(120, 30, (<<1, 1>> :> "old") @@ (<<3, 2>> :> "stale")
                   @@ (<<50, 10>> :> "left") @@ (<<110, 28>> :> "far"))
PriorSheets == {NoSheet, Sheet(MinRows, MinCols, NoCells), LargeSheet}

\* downloads/ as an earlier run may have left it.
StaleFiles == ("ats.xlsx" :> [dl |-> 0, content |-> TextTable])

LocatorIdleInit ==
  /\ caller = "none"
  /\ xpaths = <<>>
  /\ lpc = "idle"
  /\ li = 1
  /\ lf = 0
  /\ nfr = 0
  /\ lres = "none"
  /\ trace = <<>>
  /\ clicks = 0
  /\ shots = 0

\* State when run() is entered.
Init ==
  /\ LocatorIdleInit
  /\ pc = "boot"
  /\ env \in SUBSET Required
  /\ saFile = FALSE
  /\ driver = "none"
  /\ browser = "none"
  /\ closeCalls = 0
  /\ stopCalls = 0
  /\ exc = "none"
  /\ logged = FALSE
  /\ needs_login = "unknown"
  /\ fs = 1
  /\ emailBy = 0
  /\ passBy = 0
  /\ submitted = "no"
  /\ probe = "none"
  /\ url = <<>>
  /\ fills = <<>>
  /\ ok_products = "none"
  /\ productsCalls = 0
  /\ attempt = 0
  /\ success = FALSE
  /\ listening = FALSE
  /\ pauses = 0
  /\ pausedMs = 0
  /\ e = "none"
  /\ xlsx_path = ""
  /\ files \in {NoFiles, StaleFiles}
  /\ ws \in PriorSheets
  /\ wsOps = <<>>
  /\ values = <<>>
  /\ syncs = 0
  /\ after1 = NoSheet

Next ==
  \/ Bootstrap
  \/ StartDriver
  \/ LaunchBrowser
  \/ OpenPage
  \/ DetectLogin
  \/ FillEmail
  \/ FillPassword
  \/ SubmitLogin
  \/ CallProducts
  \/ MainCandidate
  \/ EnterFrames
  \/ FrameCandidate
  \/ TextFallback
  \/ DebugScreenshot
  \/ ProductsReturn
  \/ BeginAttempt
  \/ ExportReturn
  \/ AwaitDownload
  \/ Pause
  \/ LoopExit
  \/ AssertSuccess
  \/ OpenSpreadsheet
  \/ GetWorksheet
  \/ ReadExcel
  \/ Clear
  \/ Resize
  \/ Update
  \/ CloseBrowser
  \/ StopDriver
  \/ TopLevelExcept

Spec == Init /\ [][Next]_vars

\* run() when every browser, file and spreadsheet operation returns, with a
\* value or by raising: a step that can be taken is eventually taken.
FairSpec == Spec /\ WF_vars(Next)

\* ---- the locator called on its own, with any candidate list up to MaxCands
LocInit ==
  /\ caller = "direct"
  /\ xpaths \in SeqsUpTo(XPathIds, MaxCands)
  /\ lpc = "main"
  /\ li = 1
  /\ lf = 0
  /\ nfr = 0
  /\ lres = "none"
  /\ trace = <<>>
  /\ clicks = 0
  /\ shots = 0
  /\ pc = "in_locator"
  /\ env = Required
  /\ saFile = TRUE
  /\ driver = "started"
  /\ browser = "open"
  /\ closeCalls = 0
  /\ stopCalls = 0
  /\ exc = "none"
  /\ logged = FALSE
  /\ needs_login = "no"
  /\ fs = 1
  /\ emailBy = 0
  /\ passBy = 0
  /\ submitted = "no"
  /\ probe = "absent"
  /\ url = <<"/", "h", "o", "m", "e">>
  /\ fills = <<>>
  /\ ok_products = "none"
  /\ productsCalls = 0
  /\ attempt = 0
  /\ success = FALSE
  /\ listening = FALSE
  /\ pauses = 0
  /\ pausedMs = 0
  /\ e = "none"
  /\ xlsx_path = ""
  /\ files = NoFiles
  /\ ws = NoSheet
  /\ wsOps = <<>>
  /\ values = <<>>
  /\ syncs = 0
  /\ after1 = NoSheet

LocNext ==
  \/ MainCandidate
  \/ EnterFrames
  \/ FrameCandidate
  \/ TextFallback
  \/ DebugScreenshot

LocSpec == LocInit /\ [][LocNext]_vars

\* ---- the sync on its own: any table, any prior worksheet, run up to MaxSyncs
\* times with the same downloaded table.
MaxSyncs == 2

\* A table of nr data rows and nc columns: a text column, then integer columns,
\* with empty cells scattered.
GenTable(nr, nc) ==
  Table([c \in 1..nc |-> StrCell("h" \o ToString(c))],
        [r \in 1..nr |-> [c \in 1..nc |->
           IF (r + c) % 4 = 0 THEN NoCell
           ELSE IF c = 1 THEN StrCell("r" \o ToString(r))
           ELSE IntCell((r * c) % 7)]])

GenSizes == {<<39, 5>>, <<40, 5>>, <<99, 2>>, <<100, 2>>, <<2, 26>>, <<2, 27>>}

IntTable ==
  Table(<<StrCell("SKU"), StrCell("Qty")>>,
        << <<StrCell("A1"), IntCell(5)>>, <<StrCell("A2"), IntCell(12)>> >>)
MixedTable ==
  Table(<<StrCell("Code"), NoCell>>,
        << <<IntCell(7), NoCell>>, <<StrCell("x9"), NoCell>>, <<NoCell, NoCell>> >>)
HeaderOnlyTable == Table(<<StrCell("SKU"), StrCell("Qty")>>, <<>>)
EmptyTable == Table(<<>>, <<>>)

SyncTables ==
  RunTables \cup {IntTable, MixedTable, HeaderOnlyTable, EmptyTable}
            \cup {GenTable(z[1], z[2]) : z \in GenSizes}

SyncPriors == PriorSheets \cup {Sheet(2, 2, (<<2, 2>> :> "x"))}

SyncInit ==
  /\ LocatorIdleInit
  /\ pc = "worksheet"
  /\ env = Required
  /\ saFile = TRUE
  /\ driver = "started"
  /\ browser = "open"
  /\ closeCalls = 0
  /\ stopCalls = 0
  /\ exc = "none"
  /\ logged = FALSE
  /\ needs_login = "no"
  /\ fs = 1
  /\ emailBy = 0
  /\ passBy = 0
  /\ submitted = "no"
  /\ probe = "absent"
  /\ url = <<"/", "h", "o", "m", "e">>
  /\ fills = <<>>
  /\ ok_products = "true"
  /\ productsCalls = 1
  /\ attempt = 1
  /\ success = TRUE
  /\ listening = FALSE
  /\ pauses = 0
  /\ pausedMs = 0
  /\ e = "none"
  /\ xlsx_path = "ats.xlsx"
  /\ \E t \in SyncTables : files = ("ats.xlsx" :> [dl |-> 1, content |-> t])
  /\ ws \in SyncPriors
  /\ wsOps = <<>>
  /\ values = <<>>
  /\ syncs = 0
  /\ after1 = NoSheet

\* A later run reaches the sync with the same table downloaded again.
SyncAgain ==
  /\ pc = "finally_close"
  /\ exc = "none"
  /\ syncs >= 1
  /\ syncs < MaxSyncs
  /\ pc' = "worksheet"
  /\ wsOps' = <<>>
  /\ values' = <<>>
  /\ UNCHANGED <<ws, syncs, after1>>
  /\ UNCHANGED <<env, saFile, exc, logged, resvars, loginvars, prodvars, exportvars>>
  /\ UNCHANGED lvars

SyncNext ==
  \/ GetWorksheet
  \/ ReadExcel
  \/ Clear
  \/ Resize
  \/ Update
  \/ SyncAgain

SyncSpec == SyncInit /\ [][SyncNext]_vars

\* ------------------------------------------------------------------ claims
\* The first k attempts of the call are the main-document candidates 1..k, in
\* list order, all failed.
MainFailedUpTo(k) ==
  /\ Len(trace) >= k
  /\ \A j \in 1..k : trace[j] = Att("page", 0, j, FALSE)

\* Index in the trace of the attempt on candidate i inside frame f.
FrameSlot(f, i) == Len(xpaths) + (f - 1) * Len(xpaths) + i

\* C1: when a candidate is clicked in the main document it is the first one, in
\* list order, whose attempt completes (every earlier candidate was attempted
\* and failed), the call returns True with exactly one click, and nothing is
\* attempted after it: no later candidate, no frame, no text click, no
\* screenshot. A call that leaves the main document without a click has tried
\* every candidate there.
C1_FirstMainCandidateWins ==
  /\ \A k \in 1..Len(trace) :
       (trace[k].ctx = "page" /\ trace[k].ok) =>
         /\ k = Len(trace)
         /\ k <= Len(xpaths)
         /\ trace[k].cand = k
         /\ MainFailedUpTo(k - 1)
         /\ lpc = "ret"
         /\ lres = "true"
         /\ clicks = 1
         /\ shots = 0
  /\ (lpc \in {"frames", "shot"} \/ (lpc = "ret" /\ trace[Len(trace)].ctx # "page"))
       => MainFailedUpTo(Len(xpaths))

C1_Witness ==
  /\ caller = "direct"
  /\ Len(xpaths) = 3
  /\ lpc = "ret"
  /\ lres = "true"
  /\ Len(trace) = 2
  /\ trace[1] = Att("page", 0, 1, FALSE)
  /\ trace[2] = Att("page", 0, 2, TRUE)

\* C2: when a candidate is clicked inside a frame, every main-document candidate
\* was tried first and failed, the frames were visited in enumeration order with
\* all candidates tried in list order inside each, every (frame, candidate) pair
\* before the clicked one failed, the call returns True with exactly one click,
\* and nothing is attempted after it.
C2_FirstFramePairWins ==
  \A k \in 1..Len(trace) :
    (trace[k].ctx = "frame" /\ trace[k].ok) =>
      LET f == trace[k].fr
          i == trace[k].cand
      IN  /\ k = Len(trace)
          /\ f \in 1..nfr
          /\ i \in 1..Len(xpaths)
          /\ k = FrameSlot(f, i)
          /\ MainFailedUpTo(Len(xpaths))
          /\ \A g \in 1..f, j \in 1..Len(xpaths) :
               (g < f \/ j < i) => trace[FrameSlot(g, j)] = Att("frame", g, j, FALSE)
          /\ lpc = "ret"
          /\ lres = "true"
          /\ clicks = 1
          /\ shots = 0

C2_Witness ==
  /\ caller = "direct"
  /\ Len(xpaths) = 2
  /\ nfr = 2
  /\ lpc = "ret"
  /\ lres = "true"
  /\ Len(trace) = 5
  /\ trace[4] = Att("frame", 1, 2, FALSE)
  /\ trace[5] = Att("frame", 2, 1, TRUE)

\* The text fallback was attempted and failed (so every candidate failed before it).
TextFailed == \E k \in 1..Len(trace) : trace[k] = Att("text", 0, 0, FALSE)

\* Screenshot attempts recorded in the trace.
ShotAttempts == {k \in 1..Len(trace) : trace[k].ctx = "shot"}

\* C3 (as claimed): whenever no candidate is found in the main document or in any
\* frame and the text click fails too, the call returns False and has produced
\* exactly one screenshot file.
C3_ExactlyOneScreenshotFile ==
  (lpc = "ret" /\ TextFailed) => (lres = "false" /\ shots = 1)

\* C3 (amended): in that case the call returns False after exactly one
\* screenshot attempt, which leaves one file when it completes and none when it
\* raises.
C3_OneScreenshotAttempt ==
  (lpc = "ret" /\ TextFailed) =>
    /\ lres = "false"
    /\ clicks = 0
    /\ ShotAttempts = {Len(trace)}
    /\ shots = IF trace[Len(trace)].ok THEN 1 ELSE 0

C3_Witness ==
  /\ caller = "direct"
  /\ lpc = "ret"
  /\ lres = "false"
  /\ Len(xpaths) = 2
  /\ nfr = 1
  /\ Len(trace) = 6
  /\ trace[5] = Att("text", 0, 0, FALSE)
  /\ trace[6] = Att("shot", 0, 0, TRUE)
  /\ shots = 1

\* C4: the call never raises and always comes to a return: the value returned is
\* True exactly when one click completed during the call (never more than one)
\* and False exactly when none did, whichever waits, scrolls, clicks or
\* screenshot failed.
C4_BooleanOutcome ==
  /\ exc = "none"
  /\ clicks \in {0, 1}
  /\ (lpc = "ret") => /\ lres \in {"true", "false"}
                      /\ (lres = "true") <=> (clicks = 1)
                      /\ (lres = "false") <=> (clicks = 0)
  /\ (lpc # "ret") => /\ lres = "none"
                      /\ clicks = 0
                      /\ ENABLED LocNext

C4_Witness ==
  /\ caller = "direct"
  /\ lpc = "ret"
  /\ lres = "false"
  /\ clicks = 0
  /\ shots = 0
  /\ Len(xpaths) = 2
  /\ nfr = 2
  /\ Len(trace) = 8
  /\ trace[8] = Att("shot", 0, 0, FALSE)

\* Positions of run() inside the export loop.
LoopPositions == {"export", "in_export", "download", "pause"}

\* C5: the export loop never makes more than 3 attempts, and once attempt k has
\* saved its download (attempts 1..k-1 having failed, each followed by its
\* pause) the loop is left for good: the loop variable stays at k, no further
\* attempt starts, and the file xlsx_path names under downloads/ holds the
\* download captured by attempt k.
C5_ExportStopsAtFirstSuccess ==
  /\ attempt \in 0..MaxAttempts
  /\ success =>
       /\ attempt \in 1..MaxAttempts
       /\ pauses = attempt - 1
       /\ pc \notin LoopPositions
       /\ ~listening
       /\ xlsx_path \in DOMAIN files
       /\ files[xlsx_path].dl = attempt

C5_Witness ==
  /\ pc = "done"
  /\ success
  /\ attempt = 2
  /\ pauses = 1
  /\ xlsx_path = "ats.xlsx"
  /\ files[xlsx_path].dl = 2

\* Positions of run() in the spreadsheet stage.
SheetPositions == {"sheets", "worksheet", "read", "clear", "resize", "update"}

\* C6: the spreadsheet stage is entered, and the worksheet created, cleared,
\* resized or written, only after an export attempt of this run has saved a
\* download; a run whose 3 attempts all failed ends failed with the worksheet
\* untouched, and a run ends successfully only with a saved download.
C6_NoSheetWithoutDownload ==
  /\ (pc \in SheetPositions \/ wsOps # <<>> \/ syncs > 0 \/ pc = "done") =>
       /\ success
       /\ xlsx_path \in DOMAIN files
       /\ files[xlsx_path].dl \in 1..MaxAttempts
  /\ (~success /\ attempt = MaxAttempts /\ pc \in {"assert", "finally_close",
                                                  "finally_stop", "except", "failed"})
       => (wsOps = <<>> /\ syncs = 0 /\ (pc = "assert" \/ exc # "none"))

C6_Witness ==
  /\ pc = "failed"
  /\ ~success
  /\ attempt = MaxAttempts
  /\ pauses = MaxAttempts
  /\ exc = "AssertionError"
  /\ logged
  /\ wsOps = <<>>
  /\ ws = LargeSheet

\* C7: once the driver has been started, whatever ends the automation phase, by
\* the time control leaves the finally block browser.close() has been called
\* once if the browser was launched and p.stop() has been called once, also
\* when browser.close() raised; the browser is left open, or the driver
\* running, only when the very call releasing it raised.
C7_ReleaseGuaranteed ==
  /\ closeCalls \in {0, 1}
  /\ stopCalls \in {0, 1}
  /\ (driver # "none" /\ pc \in {"except", "done", "failed"}) =>
       /\ stopCalls = 1
       /\ (browser # "none") => (closeCalls = 1)
       /\ (browser = "open") => (exc \in {"close_error", "stop_error"})
       /\ (driver = "started") => (exc = "stop_error")
  /\ (pc = "done") => (driver = "stopped" /\ browser = "closed")

C7_Witness ==
  /\ pc = "failed"
  /\ exc = "close_error"
  /\ browser = "open"
  /\ closeCalls = 1
  /\ stopCalls = 1
  /\ driver = "stopped"
  /\ syncs = 1

\* The sync has run to its end.
SyncDone == pc = "finally_close" /\ exc = "none" /\ syncs >= 1

\* Text of worksheet cell q ("" when the cell is empty).
CellAt(w, q) == IF q \in DOMAIN w.cells THEN w.cells[q] ELSE ""

\* C8: when a sync has completed, the worksheet is what the table alone
\* determines: max(rows, 100) by max(columns, 26), the pushed rows from A1 and
\* every other cell empty, whatever the worksheet held before; and a second sync
\* of the same table leaves exactly the worksheet the first one left.
C8_SyncIdempotent ==
  SyncDone =>
    LET vals == PushedValues(files[xlsx_path].content)
    IN  /\ ws = after1
        /\ ws.exists
        /\ ws.rows = Max(Len(vals), 100)
        /\ ws.cols = Max(Len(vals[1]), 26)
        /\ DOMAIN ws.cells \subseteq (1..ws.rows) \X (1..ws.cols)
        /\ \A q \in (1..ws.rows) \X (1..ws.cols) :
             CellAt(ws, q) = IF q[1] <= Len(vals) /\ q[2] <= Len(vals[1])
                               THEN vals[q[1]][q[2]] ELSE ""

C8_Witness ==
  /\ SyncDone
  /\ syncs = 2
  /\ files[xlsx_path].content = ExampleTable
  /\ ws.rows = 100
  /\ ws.cols = 26
  /\ CellAt(ws, <<2, 1>>) = "A1"
  /\ CellAt(ws, <<50, 10>>) = ""

\* The text form of a cell: the integer's digits, the text itself, "" when empty.
TextForm(x) ==
  IF x.k = "na" THEN "" ELSE IF x.k = "str" THEN x.s ELSE ToString(x.n)

\* C9: the pushed rows are the header row followed by one row per data row, in
\* order, every data cell as its text form and every missing cell as "";
\* headers [SKU, Qty] with rows [A1, 5], [A2, missing] give
\* [[SKU, Qty], [A1, "5"], [A2, ""]].
C9_PushedRowsAreTextForms ==
  (pc = "clear") =>
    LET t == files[xlsx_path].content
    IN  /\ Len(values) = 1 + Len(t.rows)
        /\ \A r \in 1..Len(t.rows) :
             /\ Len(values[r + 1]) = NumCols(t)
             /\ \A c \in 1..NumCols(t) : values[r + 1][c] = TextForm(t.rows[r][c])
        /\ (t = ExampleTable) =>
             values = << <<"SKU", "Qty">>, <<"A1", "5">>, <<"A2", "">> >>

\* C10: after the resize the worksheet has max(pushed rows, 100) rows and
\* max(columns, 26) columns: never fewer than the data, never fewer than
\* 100 x 26, and no more than the larger of the two; 40 pushed rows of 5 columns
\* give exactly 100 x 26.
C10_ResizeFloor ==
  (pc = "update") =>
    /\ ws.rows >= Len(values)
    /\ ws.rows >= 100
    /\ ws.rows \in {Len(values), 100}
    /\ ws.cols >= Len(values[1])
    /\ ws.cols >= 26
    /\ ws.cols \in {Len(values[1]), 26}
    /\ (Len(values) = 40 /\ Len(values[1]) = 5) => (ws.rows = 100 /\ ws.cols = 26)

C10_Witness ==
  /\ pc = "update"
  /\ Len(values) = 40
  /\ Len(values[1]) = 5
  /\ ws.rows = 100
  /\ ws.cols = 26

\* The four variables run() reads with os.environ[...].
NamedRequired == {"REPSPARK_EMAIL", "REPSPARK_PASSWORD", "GSHEET_ID", "GCP_SA_JSON"}

\* C11: when one of REPSPARK_EMAIL, REPSPARK_PASSWORD, GSHEET_ID, GCP_SA_JSON is
\* not set, run() goes from its first statements straight to the top-level
\* handler and fails: sa.json is never written, the driver never started, the
\* browser never launched, and there is no login, no locator call, no export
\* attempt and no worksheet call.
C11_MissingEnvFailsAtOnce ==
  ~(NamedRequired \subseteq env) =>
    /\ pc \in {"boot", "except", "failed"}
    /\ (pc # "boot") => (exc \in {"KeyError", "OSError"})
    /\ saFile = FALSE
    /\ driver = "none"
    /\ browser = "none"
    /\ closeCalls = 0
    /\ stopCalls = 0
    /\ needs_login = "unknown"
    /\ emailBy = 0
    /\ passBy = 0
    /\ submitted = "no"
    /\ caller = "none"
    /\ lpc = "idle"
    /\ clicks = 0
    /\ attempt = 0
    /\ pauses = 0
    /\ ~listening
    /\ ~success
    /\ wsOps = <<>>
    /\ syncs = 0

C11_Witness ==
  /\ env = NamedRequired \ {"GCP_SA_JSON"}
  /\ pc = "failed"
  /\ exc = "KeyError"
  /\ logged
  /\ saFile = FALSE
  /\ driver = "none"

\* Positions of run() while an exception travels up, and after it has left run().
FailingPositions == {"finally_close", "finally_stop", "except", "failed"}

\* C12: an exception raised by any stage is never dropped: while it travels up
\* run() is on its way out, run() ends normally only when no stage raised, and
\* when it ends by raising, the top-level handler has logged the traceback
\* first; the traceback is logged on no other occasion, and a run that is not
\* over can always take its next step.
C12_NoSilentFailure ==
  /\ (exc # "none") => (pc \in FailingPositions)
  /\ (pc = "done") => (exc = "none" /\ ~logged)
  /\ (pc = "failed") => (exc # "none" /\ logged)
  /\ logged => (pc = "failed")
  /\ (pc \notin {"done", "failed"}) => ENABLED Next

C12_Witness ==
  /\ pc = "failed"
  /\ logged
  /\ exc = "stop_error"
  /\ syncs = 1
  /\ browser = "closed"

\* The fill calls made for one login field, in order.
IsEmailFill(r) == r.field = "email"
IsPasswordFill(r) == r.field = "password"
FillsOf(field) ==
  IF field = "email" THEN SelectSeq(fills, IsEmailFill)
                     ELSE SelectSeq(fills, IsPasswordFill)

LoginFields == {"email", "password"}
FilledBy(field) == IF field = "email" THEN emailBy ELSE passBy

\* The stage of the field was entered and left by an exception.
StageEntered(field) ==
  IF field = "email" THEN needs_login = "yes" ELSE emailBy >= 1
LoginFatal(field) ==
  StageEntered(field) /\ FilledBy(field) = 0 /\ pc \in FailingPositions

\* The strategies of a field are tried in the order name, type, placeholder,
\* nothing is tried after a success, and the email calls precede the password
\* calls.
FillsInOrder ==
  /\ \A field \in LoginFields :
       LET fl == FillsOf(field) IN
         /\ Len(fl) <= NumStrategies
         /\ \A k \in 1..Len(fl) : fl[k].sel = Strategies[k]
         /\ \A k \in 1..(Len(fl) - 1) : fl[k].out # "filled"
         /\ FilledBy(field) >= 1 <=>
              (Len(fl) >= 1 /\ fl[Len(fl)].out = "filled")
         /\ FilledBy(field) >= 1 => FilledBy(field) = Len(fl)
  /\ fills = FillsOf("email") \o FillsOf("password")

\* The password stage and the submit step come only after the email field has
\* been filled, and the submit step only after the password field as well.
LoginGated ==
  /\ (pc = "password" \/ FillsOf("password") # <<>> \/ passBy >= 1)
       => emailBy >= 1
  /\ (pc = "submit" \/ submitted # "no") => (emailBy >= 1 /\ passBy >= 1)

\* The statement of C13 as made: whenever a strategy fails, in whatever way, the
\* next one is tried, and a stage raises exactly when all three have failed.
C13_EveryFailureTriesNext ==
  /\ FillsInOrder
  /\ LoginGated
  /\ \A field \in LoginFields :
       LET fl == FillsOf(field) IN
         /\ \A k \in 1..Len(fl) :
              (fl[k].out # "filled" /\ k < NumStrategies)
                => \/ k < Len(fl)
                   \/ (pc = field /\ fs = k + 1)
         /\ LoginFatal(field) <=>
              (Len(fl) = NumStrategies /\ \A k \in 1..Len(fl) : fl[k].out # "filled")

\* C13 (amended): each login field is filled by trying the selectors name, type,
\* placeholder in that order, stopping at the first that succeeds; a strategy
\* that times out is followed by the next one, a strategy that fails in any
\* other way ends the run at once without the remaining ones being tried, and
\* a stage raises exactly when one of its strategies fails in such a way or all
\* three time out; the password stage and the submit step are reached only
\* after the email field has been filled.
C13_TimeoutTriesNext ==
  /\ FillsInOrder
  /\ LoginGated
  /\ \A field \in LoginFields :
       LET fl == FillsOf(field) IN
         /\ \A k \in 1..Len(fl) :
              /\ (fl[k].out = "timeout" /\ k < NumStrategies)
                   => \/ k < Len(fl)
                      \/ (pc = field /\ fs = k + 1)
              /\ (fl[k].out = "error")
                   => (k = Len(fl) /\ fills[Len(fills)] = fl[k]
                       /\ pc \in FailingPositions)
         /\ LoginFatal(field) <=>
              /\ Len(fl) >= 1
              /\ \/ fl[Len(fl)].out = "error"
                 \/ (Len(fl) = NumStrategies
                     /\ \A k \in 1..Len(fl) : fl[k].out = "timeout")

\* The second email strategy fails otherwise than by a timeout: the run has
\* failed and the placeholder strategy was never tried.
C13_Witness ==
  /\ fills = << [field |-> "email", sel |-> "name", out |-> "timeout"],
                [field |-> "email", sel |-> "type", out |-> "error"] >>
  /\ pc = "failed"
  /\ exc = "fill_error"
  /\ emailBy = 0

\* What holds of the login stage whatever decided it: nothing of it happens
\* before the detection or when needs_login is False, and when needs_login is
\* True the email stage is the next thing to run.
LoginFollowsDecision ==
  /\ (probe = "none") <=> (needs_login = "unknown")
  /\ (probe = "none") <=> (url = <<>>)
  /\ (needs_login # "yes")
       => (fills = <<>> /\ emailBy = 0 /\ passBy = 0 /\ submitted = "no"
           /\ pc \notin {"email", "password", "submit"})
  /\ (needs_login = "yes" /\ fills = <<>>) => (pc = "email" /\ ENABLED FillEmail)
  /\ (probe = "absent") => (needs_login = "no")

\* The statement of C14 as made: the URL test is on the URL as it stands.
C14_LoginIffEmailOrLoginInUrl ==
  /\ LoginFollowsDecision
  /\ (probe # "none")
       => ((needs_login = "yes")
             <=> (probe = "present"
                  \/ (probe = "error" /\ Contains(LoginWord, url))))

\* C14 (amended): login is performed exactly when the Email field is detected
\* on the page, or when the detection check itself fails and the current URL
\* contains "login" in any letter case (the URL is lower-cased before the
\* test); when the check completes and finds no Email field, no credential is
\* filled and no submit happens, whatever the URL is.
C14_LoginIffEmailOrLoginInLoweredUrl ==
  /\ LoginFollowsDecision
  /\ (probe # "none")
       => ((needs_login = "yes")
             <=> (probe = "present"
                  \/ (probe = "error"
                      /\ \E k \in 0..(Len(url) - Len(LoginWord)) :
                           \A j \in 1..Len(LoginWord) :
                             LowerChar(url[k + j]) = LoginWord[j])))

\* The check raised on a page whose URL spells Login with a capital: the login
\* was performed.
C14_Witness ==
  /\ probe = "error"
  /\ url = <<"/", "L", "o", "g", "i", "n">>
  /\ needs_login = "yes"
  /\ emailBy >= 1
  /\ passBy >= 1
  /\ submitted # "no"

\* Index in the trace at which the text click falls when every candidate has
\* failed in the main document and in each of the nfr frames.
TextSlot == Len(xpaths) * (1 + nfr) + 1

\* Text clicks recorded in the trace.
TextAttempts == {k \in 1..Len(trace) : trace[k].ctx = "text"}

\* The frame list has been enumerated and every candidate has been attempted
\* and has failed, in the main document and in every frame.
AllCandidatesFailed ==
  /\ lpc \in {"frames", "shot", "ret"}
  /\ Len(trace) >= TextSlot - 1
  /\ MainFailedUpTo(Len(xpaths))
  /\ \A f \in 1..nfr : \A i \in 1..Len(xpaths) :
       trace[FrameSlot(f, i)] = Att("frame", f, i, FALSE)

\* C15: in wait_and_click_xpath_anywhere the text click on "Export ATS to Excel"
\* is attempted only after every candidate has failed in the main document and
\* in every frame; once they all have, it is the next thing the call does,
\* whichever candidate list was supplied (the Products call included); and
\* when it succeeds the call returns True at once, with no screenshot taken.
\* The screenshot and the False result come only after a failed text click.
C15_TextClickLastResort ==
  /\ \A k \in TextAttempts : (k = TextSlot /\ AllCandidatesFailed)
  /\ (caller # "none" /\ AllCandidatesFailed /\ TextAttempts = {})
       => (lpc = "frames" /\ lf > nfr /\ ENABLED TextFallback)
  /\ \A k \in TextAttempts :
       trace[k].ok => /\ k = Len(trace)
                      /\ lpc = "ret"
                      /\ lres = "true"
                      /\ clicks = 1
                      /\ shots = 0
                      /\ ShotAttempts = {}
  /\ (lpc = "shot" \/ ShotAttempts # {} \/ lres = "false")
       => (TextAttempts = {TextSlot} /\ ~trace[TextSlot].ok)

\* The Products call: its only candidate failed in the main document and in
\* both frames, the text click then succeeded and the call returned True.
C15_Witness ==
  /\ caller = "products"
  /\ pc = "in_products"
  /\ xpaths = ProductsXPaths
  /\ nfr = 2
  /\ Len(trace) = 4
  /\ trace[4] = Att("text", 0, 0, TRUE)
  /\ lpc = "ret"
  /\ lres = "true"
  /\ shots = 0

\* Files in downloads/ saved by export attempt a of this run.
SavedBy(a) == {n \in DOMAIN files : files[n].dl = a}

\* What holds at each point of an export attempt: the locator runs for the
\* export only inside an open listener, the download is awaited with the
\* listener still open, the handler runs with the exception caught (bound to e,
\* nothing travelling up) and with nothing saved by the attempt, and a file of
\* the attempt exists only when the attempt succeeded.
ExportAttemptShape ==
  /\ (caller = "export") <=> (pc = "in_export")
  /\ (pc = "in_export") => (listening /\ attempt \in 1..MaxAttempts /\ ~success)
  /\ (pc = "download") => (listening /\ ~success /\ SavedBy(attempt) = {})
  /\ (e # "none") <=> (pc = "pause")
  /\ (pc = "pause") => /\ exc = "none"
                       /\ ~success
                       /\ ~listening
                       /\ SavedBy(attempt) = {}
                       /\ ENABLED Pause
  /\ \A a \in 1..MaxAttempts : (SavedBy(a) # {}) => (success /\ a = attempt)

\* What holds of each step: the download is awaited only out of a locator call
\* of the same attempt that returned True; a file is saved only by the step that
\* awaited the download; a locator call that returned False, and a download
\* that did not arrive, hand the attempt to the handler of the loop with
\* nothing saved and no exception leaving the loop.
ExportAttemptStep ==
  /\ (pc' = "download" /\ pc # "download")
       => (pc = "in_export" /\ lpc = "ret" /\ lres = "true" /\ attempt' = attempt)
  /\ (files' # files) => (pc = "download" /\ success' /\ attempt' = attempt)
  /\ (pc = "in_export" /\ lpc = "ret" /\ lres = "false")
       => (pc' = "pause" /\ e' = "RuntimeError" /\ exc' = "none" /\ files' = files)
  /\ (pc = "download" /\ pc' # "download" /\ ~success')
       => (pc' = "pause" /\ e' \in {"TimeoutError", "save_error"}
           /\ exc' = "none" /\ files' = files)

\* C16: in every export attempt the download listener is open before the
\* locator makes any export click; the download is awaited and saved only if
\* the locator returned True in that same attempt; a locator failure or a
\* download that does not arrive in time makes the attempt fail with no file
\* saved and is caught by the handler of the retry loop instead of leaving it.
C16_ListenClickAwait ==
  []ExportAttemptShape /\ [][ExportAttemptStep]_vars

\* The first attempt's click was made but the download did not arrive: the
\* timeout is caught, nothing was saved and the run goes on.
C16_Witness ==
  /\ pc = "pause"
  /\ attempt = 1
  /\ e = "TimeoutError"
  /\ exc = "none"
  /\ ~success
  /\ SavedBy(1) = {}
  /\ xlsx_path = ""

\* C17: in the export loop the 1.5 second pause follows failed attempts only:
\* when attempt k starts, exactly k-1 pauses have been made, one after each of
\* the failed attempts before it (so every attempt after the first is preceded
\* by exactly one pause since the previous attempt), each pause is made by the
\* handler of a failed attempt, and a successful attempt is followed by none.
C17_PauseBetweenFailedAttempts ==
  /\ pausedMs = pauses * PauseMs
  /\ (attempt = 0) => (pauses = 0)
  /\ (attempt >= 1) => (pauses \in {attempt - 1, attempt})
  /\ (pc \in {"in_export", "download"}) => (pauses = attempt - 1)
  /\ (pc = "pause") => (pauses = attempt - 1 /\ ~success /\ e # "none")
  /\ (pc = "export") => (pauses = attempt /\ ~success)
  /\ success => (pauses = attempt - 1 /\ pc # "pause" /\ pc # "export")

\* The first attempt failed, one pause of 1.5 s followed, the second attempt
\* succeeded and the run went on to its end without another pause.
C17_Witness ==
  /\ pc = "done"
  /\ success
  /\ attempt = 2
  /\ pauses = 1
  /\ pausedMs = 1500

\* The stages of run(), in program order; the positions of one stage share its
\* number.
StageRank ==
  CASE pc = "boot" -> 0
    [] pc = "driver" -> 1
    [] pc = "launch" -> 2
    [] pc = "open" -> 3
    [] pc = "detect" -> 4
    [] pc \in {"email", "password", "submit"} -> 5
    [] pc \in {"products", "in_products"} -> 6
    [] pc \in LoopPositions -> 7
    [] pc = "assert" -> 8
    [] pc \in SheetPositions -> 9
    [] pc = "finally_close" -> 10
    [] pc = "finally_stop" -> 11
    [] pc = "except" -> 12
    [] OTHER -> 13

\* Position inside a stage that has several: the login steps and the sync steps
\* in program order, the export loop by attempt number.
StepRank ==
  CASE pc = "email" -> 0
    [] pc = "password" -> 1
    [] pc = "submit" -> 2
    [] pc = "products" -> 0
    [] pc = "in_products" -> 1
    [] pc \in LoopPositions -> attempt
    [] pc = "sheets" -> 0
    [] pc = "worksheet" -> 1
    [] pc = "read" -> 2
    [] pc = "clear" -> 3
    [] pc = "resize" -> 4
    [] pc = "update" -> 5
    [] OTHER -> 0

\* No attempt of a locator call repeats an earlier one: each candidate is tried
\* at most once in the main document and at most once in each frame, and the
\* text click and the screenshot are tried at most once.
NoRepeatedAttempt ==
  /\ \A j \in 1..Len(trace) : \A k \in 1..Len(trace) :
       (j # k) => (<<trace[j].ctx, trace[j].fr, trace[j].cand>>
                     # <<trace[k].ctx, trace[k].fr, trace[k].cand>>)
  /\ Len(trace) <= Len(xpaths) * (1 + nfr) + 2
  /\ nfr <= MaxFrames

\* A run that is over stays over.
RunOver == pc \in {"done", "failed"}

\* C18: when every operation returns, every run ends, in the success state or
\* in the failed state, and stays there; on the way the locator tries each
\* candidate at most once in the main document and at most once per frame, the
\* export loop makes at most 3 attempts, and run() never goes back to a stage,
\* or to a step of a stage, that it has left.
C18_RunTerminates ==
  /\ <>[]RunOver
  /\ [](NoRepeatedAttempt /\ attempt <= MaxAttempts)
  /\ [][/\ StageRank' >= StageRank
        /\ (StageRank' = StageRank) => (StepRank' >= StepRank)
        /\ attempt' >= attempt]_vars

\* A run that ended in the success state after the longest way there: two
\* failed export attempts and a third one that saved its download.
C18_Witness ==
  /\ RunOver
  /\ attempt = MaxAttempts
  /\ pauses = MaxAttempts - 1
  /\ success
  /\ pc = "done"

\* The worksheet calls of one sync, in program order, with and without the
\* creation of the worksheet.
IsPrefix(a, b) == Len(a) <= Len(b) /\ a = SubSeq(b, 1, Len(a))
SyncWithAdd == <<"add", "clear", "resize", "update">>
SyncNoAdd == <<"clear", "resize", "update">>

\* The worksheet calls made so far are an initial part of one sync, none of
\* them made twice; the steps after the lookup work on an existing worksheet;
\* a worksheet just created has 100 rows, 26 columns and no values; and a run
\* that ended well made the whole sequence.
SyncShape ==
  /\ IsPrefix(wsOps, SyncWithAdd) \/ IsPrefix(wsOps, SyncNoAdd)
  /\ (pc \in {"read", "clear", "resize", "update"}) => ws.exists
  /\ (wsOps = <<"add">>)
       => (ws = [exists |-> TRUE, rows |-> 100, cols |-> 26, cells |-> NoCells])
  /\ (pc = "done") => (wsOps \in {SyncWithAdd, SyncNoAdd})
  /\ (exc # "none") => (pc \notin SheetPositions)

\* The lookup of a missing worksheet, when it does not fail, creates it and goes
\* on; the lookup of an existing one changes nothing; and the spreadsheet
\* stage is left either by the update having been made or by an exception on
\* its way out of run(), never to be entered again.
SyncStep ==
  /\ (pc = "worksheet" /\ ~ws.exists /\ pc' # "worksheet")
       => \/ (pc' = "read" /\ wsOps' = <<"add">> /\ ws'.exists /\ exc' = "none")
          \/ (pc' = "finally_close" /\ exc' # "none" /\ ws' = ws /\ wsOps' = wsOps)
  /\ (pc = "worksheet" /\ ws.exists) => (ws' = ws /\ wsOps' = wsOps)
  /\ (pc \in SheetPositions /\ pc' \notin SheetPositions)
       => /\ pc' = "finally_close"
          /\ (exc' = "none") <=> (pc = "update" /\ wsOps' = Append(wsOps, "update"))
          /\ (exc' # "none") => (ws' = ws /\ wsOps' = wsOps)
  /\ (pc \notin SheetPositions /\ pc' \in SheetPositions)
       => (pc = "assert" /\ pc' = "sheets" /\ wsOps = <<>>)

\* C19: a missing worksheet is recovered from by creating it with 100 rows and
\* 26 columns, after which the sync goes on with clear, resize and update; any
\* other failure of a spreadsheet call (authentication, opening, the lookup or
\* the creation themselves, clear, resize, update) is not retried: the call is
\* not made again, the worksheet is left as it was before the call, and the
\* exception takes the run to its failed end.
C19_MissingWorksheetRecovered ==
  []SyncShape /\ [][SyncStep]_vars

\* The worksheet was missing: it was created, cleared, resized and written,
\* and the run ended well.
C19_Witness ==
  /\ pc = "done"
  /\ wsOps = SyncWithAdd
  /\ ws.exists
  /\ ws.rows = 100
  /\ ws.cols = 26
  /\ syncs = 1

\* C20: the stages of run() are ordered and gated. The Products locator call
\* is made at most once, after the login decision and, when login is required,
\* after both fields were filled and the form submitted; an export attempt is
\* made only when that call returned True; and when it returned False the run
\* is on its way to the failed end with no export attempt and no worksheet call
\* made.
C20_StagesGated ==
  /\ productsCalls <= 1
  /\ (caller = "products") <=> (pc = "in_products")
  /\ (StageRank <= 5 \/ pc = "products") => (productsCalls = 0)
  /\ (pc = "in_products" \/ StageRank \in 7..9) => (productsCalls = 1)
  /\ (pc = "products" \/ productsCalls = 1)
       => /\ needs_login \in {"yes", "no"}
          /\ (needs_login = "yes")
               => (emailBy >= 1 /\ passBy >= 1 /\ submitted # "no")
  /\ (ok_products # "none") => (productsCalls = 1)
  /\ (attempt >= 1 \/ pc \in LoopPositions) => (ok_products = "true")
  /\ (wsOps # <<>> \/ success) => (ok_products = "true" /\ attempt >= 1)
  /\ (ok_products = "false")
       => /\ attempt = 0
          /\ wsOps = <<>>
          /\ ~success
          /\ ~listening
          /\ exc # "none"
          /\ pc \in FailingPositions

\* After a login, the Products call returned False: the run failed with no
\* export attempt and no worksheet call.
C20_Witness ==
  /\ ok_products = "false"
  /\ productsCalls = 1
  /\ needs_login = "yes"
  /\ submitted # "no"
  /\ pc = "failed"
  /\ attempt = 0
  /\ wsOps = <<>>

====
